---- MODULE Spec2Model ----
(***************************************************************************)
(* A model of minesweeper.py: the knowledge base of MinesweeperAI          *)
(* (add_knowledge and the Sentence operations it drives) and the           *)
(* backtracking solver (SolveMinesweeper and its helpers).                 *)
(*                                                                         *)
(* Cells are pairs <<i, j>> with 0 <= i < height and 0 <= j < width, as in *)
(* the source.  A Sentence object is a record [cells, count, id]; the id   *)
(* stands for the identity of the Python object (the `is` test of step 5), *)
(* and Sentence.__eq__ compares cells and count only.                      *)
(***************************************************************************)
EXTENDS Integers, Sequences, FiniteSets, TLC

\* ------------------------------------------------------------------ bounds

\* Boards of the knowledge base have at most MaxCells cells.
MaxCells == 7

\* add_knowledge is not started on a list that already holds MaxSentences
\* sentences, and step 5 does not append beyond it (a lying driver can make
\* step 5 append for ever).
MaxSentences == 12

\* The lying driver of SpecFaulty makes at most MaxFaultyCalls calls, each with
\* a count in 0..MaxCount.
MaxFaultyCalls == 2

MaxCount == 2

\* Target matrices of the solver have at most MaxGrid entries, each in
\* 0..MaxTarget.
MaxGrid == 4

MaxTarget == 3

VARIABLES
    height, width,      \* MinesweeperAI.height, .width (and the game's)
    board,              \* Minesweeper.mines: the cells that hold a mine
    moves_made,         \* MinesweeperAI.moves_made
    safes,              \* MinesweeperAI.safes
    mines,              \* MinesweeperAI.mines
    knowledge,          \* MinesweeperAI.knowledge: a list of Sentence objects
    nextId,             \* identity of the next Sentence object to be built
    pc,                 \* where add_knowledge stands: idle, step4, outer, inner
    idx,                \* list iterator of `for sentence` / `for sentence1`
    jdx,                \* list iterator of `for sentence2`
    sentence1,          \* the object bound to sentence1 in step 5
    call,               \* the arguments of the last call of add_knowledge
    mpc,                \* make_safe_move / make_random_move: idle, random
                        \* (inside the loop of line 376), safe_returned,
                        \* random_returned
    move                \* the value the last of the two returned

kbvars == <<height, width, board, moves_made, safes, mines, knowledge, nextId,
            pc, idx, jdx, sentence1, call, mpc, move>>

VARIABLES
    N, M,               \* the dimensions passed to minesweeperOperations
    target,             \* the matrix as it was when the call was made
    arr,                \* the caller's matrix, which the search writes
    grid,               \* the placement being built
    visited,            \* the cells decided on the current branch
    stack,              \* the invocations of SolveMinesweeper that wait for
                        \* a recursive call, innermost last
    spc,                \* start, call (an invocation is entered), ret (one
                        \* has returned), done
    ret,                \* the value the last invocation returned
    last,               \* the invocation that has just returned, with the
                        \* arrays it was entered with
    outcome             \* what minesweeperOperations returned: grid or none

solvervars == <<N, M, target, arr, grid, visited, stack, spc, ret, last, outcome>>

vars == <<kbvars, solvervars>>

\* ------------------------------------------------------- the game (board)

Cells(h, w) == (0 .. h - 1) \X (0 .. w - 1)

\* Lines 65-73 and 197-206: the cells within one row and column of `cell`,
\* the cell itself ignored, kept when in bounds.
Neighbours(cell, h, w) ==
    {c \in ((cell[1] - 1) .. (cell[1] + 1)) \X ((cell[2] - 1) .. (cell[2] + 1)) :
        /\ c # cell
        /\ 0 <= c[1] /\ c[1] < h
        /\ 0 <= c[2] /\ c[2] < w}

\* Minesweeper.nearby_mines
nearby_mines(cell) ==
    Cardinality({c \in Neighbours(cell, height, width) : c \in board})

\* ---------------------------------------------------------------- Sentence

NoSentence == [cells |-> {}, count |-> 0, id |-> 0]

\* No call of add_knowledge yet.
NoCall == [cell |-> <<0, 0>>, count |-> -1]

\* None, as make_safe_move and make_random_move return it.
NoMove == <<-1, -1>>

\* Sentence.__eq__
SentenceEq(a, b) == a.cells = b.cells /\ a.count = b.count

\* Sentence.known_mines: the cell set, or None (here the empty set, which the
\* callers' `if mines:` treats alike)
known_mines(s) == IF s.count = Cardinality(s.cells) THEN s.cells ELSE {}

\* Sentence.known_safes with the test of line 112 inverted (`if self.count`).
known_safes_inverted(s) == IF s.count # 0 THEN s.cells ELSE {}

\* Sentence.known_safes
known_safes(s) == IF s.count = 0 THEN s.cells ELSE {}

\* Sentence.mark_mine without line 123: the count stays.
SentenceMarkMineNoCount(s, cell) ==
    IF cell \in s.cells THEN [s EXCEPT !.cells = s.cells \ {cell}] ELSE s

\* Sentence.mark_mine
SentenceMarkMine(s, cell) ==
    IF cell \in s.cells
    THEN [s EXCEPT !.cells = s.cells \ {cell}, !.count = s.count - 1]
    ELSE s

\* Sentence.mark_safe with line 123 of mark_mine copied into it: the count is
\* reduced for a safe cell too.  The slip C5 is checked against.
SentenceMarkSafeCounting(s, cell) ==
    IF cell \in s.cells
    THEN [s EXCEPT !.cells = s.cells \ {cell}, !.count = s.count - 1]
    ELSE s

\* Sentence.mark_safe
SentenceMarkSafe(s, cell) ==
    IF cell \in s.cells THEN [s EXCEPT !.cells = s.cells \ {cell}] ELSE s

\* ----------------------------------------------------------- MinesweeperAI

\* The knowledge base as a value: what mark_safe and mark_mine read and write.
KB == [safes |-> safes, mines |-> mines, knowledge |-> knowledge]

\* MinesweeperAI.mark_mine without the loop of lines 159-160: the sentences
\* are not told.
mark_mine_unpropagated(k, cell) == [k EXCEPT !.mines = k.mines \cup {cell}]

\* MinesweeperAI.mark_mine
mark_mine(k, cell) ==
    [k EXCEPT !.mines = k.mines \cup {cell},
              !.knowledge = [n \in 1 .. Len(k.knowledge) |->
                                SentenceMarkMine(k.knowledge[n], cell)]]

\* MinesweeperAI.mark_safe
mark_safe(k, cell) ==
    [k EXCEPT !.safes = k.safes \cup {cell},
              !.knowledge = [n \in 1 .. Len(k.knowledge) |->
                                SentenceMarkSafe(k.knowledge[n], cell)]]

\* `for cell in safes.copy(): self.mark_safe(cell)`
RECURSIVE MarkAllSafe(_, _)
MarkAllSafe(k, S) ==
    IF S = {} THEN k
    ELSE LET c == CHOOSE x \in S : TRUE
         IN  MarkAllSafe(mark_safe(k, c), S \ {c})

\* `for cell in mines.copy(): self.mark_mine(cell)`
RECURSIVE MarkAllMines(_, _)
MarkAllMines(k, S) ==
    IF S = {} THEN k
    ELSE LET c == CHOOSE x \in S : TRUE
         IN  MarkAllMines(mark_mine(k, c), S \ {c})

\* Step 3 without lines 210-211: the count is not reduced for the neighbours
\* already known to be mines.  The slip C1 is checked against.
NewSentenceUnadjusted(cell, count, made, known, id) ==
    [cells |-> {c \in Neighbours(cell, height, width) :
                   c \notin made /\ c \notin known},
     count |-> count, id |-> id]

\* Step 3 of add_knowledge: the sentence built from the neighbours of `cell`,
\* read after moves_made.add(cell) and mark_safe(cell).
NewSentence(cell, count, made, known, id) ==
    LET nb == Neighbours(cell, height, width)
        cells == {c \in nb : c \notin made /\ c \notin known}
        excluded == {c \in nb : ~(c \notin made /\ c \notin known) /\ c \in known}
    IN  [cells |-> cells, count |-> count - Cardinality(excluded), id |-> id]

\* Step 4, the body of `for sentence in self.knowledge` for the sentence at
\* position n.
Step4Body(k, n) ==
    LET k1 == MarkAllSafe(k, known_safes(k.knowledge[n]))
    IN  MarkAllMines(k1, known_mines(k1.knowledge[n]))

\* Step 5, list.remove(x): the first item equal to x goes.
RECURSIVE FirstEq(_, _, _)
FirstEq(kn, x, n) ==
    IF n > Len(kn) THEN 0
    ELSE IF SentenceEq(kn[n], x) THEN n
    ELSE FirstEq(kn, x, n + 1)

ListRemove(kn, x) ==
    LET p == FirstEq(kn, x, 1)
    IN  [n \in 1 .. (Len(kn) - 1) |-> IF n < p THEN kn[n] ELSE kn[n + 1]]

\* `new_knowledge not in self.knowledge`
NotIn(kn, x) == \A n \in 1 .. Len(kn) : ~SentenceEq(kn[n], x)

\* Step 5, the body of the inner loop for sentence1 = a and sentence2 = b:
\* the list afterwards.
Step5Body(kn, a, b, id) ==
    IF a.id = b.id THEN kn
    ELSE IF SentenceEq(a, b) THEN ListRemove(kn, b)
    ELSE IF a.cells \subseteq b.cells
         THEN LET new == [cells |-> b.cells \ a.cells,
                          count |-> b.count - a.count, id |-> id]
              IN  IF NotIn(kn, new) THEN Append(kn, new) ELSE kn
    ELSE kn

\* Step 4 as a whole (lines 216-224), from position n on.
RECURSIVE RunStep4(_, _)
RunStep4(k, n) ==
    IF n > Len(k.knowledge) THEN k ELSE RunStep4(Step4Body(k, n), n + 1)

\* Step 5 as a whole (lines 228-239): the outer loop about to yield position
\* i, and the inner loop about to yield position j for sentence1 = a.
RECURSIVE RunStep5Outer(_, _, _)
RECURSIVE RunStep5Inner(_, _, _, _, _)
RunStep5Outer(kn, i, id) ==
    IF i > Len(kn) THEN kn ELSE RunStep5Inner(kn, i + 1, kn[i], 1, id)

RunStep5Inner(kn, i, a, j, id) ==
    IF j > Len(kn) THEN RunStep5Outer(kn, i, id)
    ELSE LET kn2 == Step5Body(kn, a, kn[j], id)
         IN  RunStep5Inner(kn2, i, a, j + 1,
                           IF Len(kn2) > Len(kn) THEN id + 1 ELSE id)

\* ------------------------------------------------------------------ Init

Boards == {d \in (1 .. MaxCells) \X (1 .. MaxCells) : d[1] * d[2] <= MaxCells}

InitKB ==
    /\ \E d \in Boards : height = d[1] /\ width = d[2]
    /\ board \in SUBSET Cells(height, width)
    /\ moves_made = {}
    /\ safes = {}
    /\ mines = {}
    /\ knowledge = <<>>
    /\ nextId = 1
    /\ pc = "idle"
    /\ idx = 0
    /\ jdx = 0
    /\ sentence1 = NoSentence
    /\ call = NoCall
    /\ mpc = "idle"
    /\ move = NoMove

\* ------------------------------------------------------- add_knowledge

\* Steps 1 to 3 (lines 186-212).
AddKnowledge(cell, count) ==
    /\ pc = "idle"
    /\ mpc # "random"
    /\ call' = [cell |-> cell, count |-> count]
    /\ mpc' = "idle"
    /\ move' = NoMove
    /\ Len(knowledge) < MaxSentences
    /\ moves_made' = moves_made \cup {cell}
    /\ LET k == mark_safe(KB, cell)
       IN  /\ safes' = k.safes
           /\ mines' = k.mines
           /\ knowledge' = Append(k.knowledge,
                  NewSentence(cell, count, moves_made', k.mines, nextId))
    /\ nextId' = nextId + 1
    /\ pc' = "step4"
    /\ idx' = 1
    /\ UNCHANGED <<height, width, board, jdx, sentence1>>
    /\ UNCHANGED solvervars

\* Step 4 (lines 216-224): one turn of `for sentence in self.knowledge`.
Step4 ==
    /\ pc = "step4"
    /\ idx <= Len(knowledge)
    /\ LET k == Step4Body(KB, idx)
       IN  /\ safes' = k.safes
           /\ mines' = k.mines
           /\ knowledge' = k.knowledge
    /\ idx' = idx + 1
    /\ UNCHANGED <<height, width, board, moves_made, nextId, pc, jdx, sentence1>>
    /\ UNCHANGED <<call, mpc, move>>
    /\ UNCHANGED solvervars

\* The loop of step 4 is exhausted: step 5 starts.
Step4End ==
    /\ pc = "step4"
    /\ idx > Len(knowledge)
    /\ pc' = "outer"
    /\ idx' = 1
    /\ UNCHANGED <<height, width, board, moves_made, safes, mines, knowledge,
                   nextId, jdx, sentence1>>
    /\ UNCHANGED <<call, mpc, move>>
    /\ UNCHANGED solvervars

\* Step 5 (line 228): `for sentence1 in self.knowledge` yields the next item.
Step5Outer ==
    /\ pc = "outer"
    /\ idx <= Len(knowledge)
    /\ sentence1' = knowledge[idx]
    /\ idx' = idx + 1
    /\ jdx' = 1
    /\ pc' = "inner"
    /\ UNCHANGED <<height, width, board, moves_made, safes, mines, knowledge,
                   nextId>>
    /\ UNCHANGED <<call, mpc, move>>
    /\ UNCHANGED solvervars

\* Step 5 (lines 229-239): one turn of `for sentence2 in self.knowledge`.
Step5Inner ==
    /\ pc = "inner"
    /\ jdx <= Len(knowledge)
    /\ LET kn == Step5Body(knowledge, sentence1, knowledge[jdx], nextId)
       IN  /\ Len(kn) <= MaxSentences
           /\ knowledge' = kn
           /\ nextId' = IF Len(kn) > Len(knowledge) THEN nextId + 1 ELSE nextId
    /\ jdx' = jdx + 1
    /\ UNCHANGED <<height, width, board, moves_made, safes, mines, pc, idx,
                   sentence1>>
    /\ UNCHANGED <<call, mpc, move>>
    /\ UNCHANGED solvervars

\* The inner loop is exhausted.
Step5InnerEnd ==
    /\ pc = "inner"
    /\ jdx > Len(knowledge)
    /\ pc' = "outer"
    /\ jdx' = 0
    /\ sentence1' = NoSentence
    /\ UNCHANGED <<height, width, board, moves_made, safes, mines, knowledge,
                   nextId, idx>>
    /\ UNCHANGED <<call, mpc, move>>
    /\ UNCHANGED solvervars

\* The outer loop is exhausted: add_knowledge returns.
Return ==
    /\ pc = "outer"
    /\ idx > Len(knowledge)
    /\ pc' = "idle"
    /\ idx' = 0
    /\ UNCHANGED <<height, width, board, moves_made, safes, mines, knowledge,
                   nextId, jdx, sentence1>>
    /\ UNCHANGED <<call, mpc, move>>
    /\ UNCHANGED solvervars

\* The driver of the game: a cell not yet revealed that holds no mine is
\* revealed, and add_knowledge is called once for it with the count the board
\* gives.
Reveal ==
    \E cell \in Cells(height, width) \ (board \cup moves_made) :
        AddKnowledge(cell, nearby_mines(cell))

\* The state of the knowledge base that the two move functions may only read.
kbstate == <<height, width, board, moves_made, safes, mines, knowledge, nextId,
             pc, idx, jdx, sentence1, call>>

\* make_safe_move, line 359 without the subtraction of the moves made.
all_safes(k, made) == k.safes

\* make_safe_move, line 359
available_steps(k, made) == k.safes \ made

\* make_safe_move while a safe cell is left to play: any of them is returned.
SafeMoveSome ==
    /\ pc = "idle"
    /\ mpc # "random"
    /\ available_steps(KB, moves_made) # {}
    /\ \E c \in available_steps(KB, moves_made) : move' = c
    /\ mpc' = "safe_returned"
    /\ UNCHANGED kbstate
    /\ UNCHANGED solvervars

\* make_safe_move with no safe cell left to play: None.
SafeMoveNone ==
    /\ pc = "idle"
    /\ mpc # "random"
    /\ available_steps(KB, moves_made) = {}
    /\ move' = NoMove
    /\ mpc' = "safe_returned"
    /\ UNCHANGED kbstate
    /\ UNCHANGED solvervars

\* make_random_move, line 372 with safes counted in place of moves_made.
NoMoveLeftBySafes(k, made, h, w) ==
    Cardinality(k.mines) + Cardinality(k.safes) = h * w

\* make_random_move, line 372
NoMoveLeft(k, made, h, w) ==
    Cardinality(k.mines) + Cardinality(made) = h * w

\* make_random_move, lines 372-373: None.
RandomNone ==
    /\ pc = "idle"
    /\ mpc # "random"
    /\ NoMoveLeft(KB, moves_made, height, width)
    /\ move' = NoMove
    /\ mpc' = "random_returned"
    /\ UNCHANGED kbstate
    /\ UNCHANGED solvervars

\* make_random_move, line 376: the loop is entered.
RandomEnter ==
    /\ pc = "idle"
    /\ mpc # "random"
    /\ ~NoMoveLeft(KB, moves_made, height, width)
    /\ mpc' = "random"
    /\ move' = NoMove
    /\ UNCHANGED kbstate
    /\ UNCHANGED solvervars

\* make_random_move, line 379
Playable(c, made, known) == c \notin made /\ c \notin known

\* One turn of the loop whose draw is rejected.
RandomRetry ==
    /\ mpc = "random"
    /\ \E i \in 0 .. height - 1 : \E j \in 0 .. width - 1 :
           ~Playable(<<i, j>>, moves_made, mines)
    /\ UNCHANGED <<mpc, move>>
    /\ UNCHANGED kbstate
    /\ UNCHANGED solvervars

\* One turn of the loop whose draw is returned.
RandomReturn ==
    /\ mpc = "random"
    /\ \E i \in 0 .. height - 1 : \E j \in 0 .. width - 1 :
           /\ Playable(<<i, j>>, moves_made, mines)
           /\ move' = <<i, j>>
    /\ mpc' = "random_returned"
    /\ UNCHANGED kbstate
    /\ UNCHANGED solvervars

\* ------------------------------------------------------------ the solver

\* Lines 5-6.
dx == <<-1, 0, 1, -1, 0, 1, -1, 0, 1>>

dy == <<0, 0, 0, -1, -1, -1, 1, 1, 1>>

\* MinesweeperAI.isValid
isValid(x, y, n, m) == x >= 0 /\ y >= 0 /\ x < n /\ y < m

\* Hits with the offset (0, 0) left out of dx, dy: the cell itself is not
\* counted.  The variant the amended C9 is checked against.
HitsNeighboursOnly(c, x, y) ==
    Cardinality({i \in 1 .. 9 :
        c = <<x + dx[i], y + dy[i]>> /\ <<dx[i], dy[i]>> # <<0, 0>>})

\* How many turns of `for i in range(9)` reach cell c from (x, y): the amount
\* lines 265-268 take from arr[c] and lines 315-317 give back.
Hits(c, x, y) ==
    Cardinality({i \in 1 .. 9 : c = <<x + dx[i], y + dy[i]>>})

\* MinesweeperAI.isSafe with the test of line 261 off by one (`arr[..] < 0`).
isSafeLoose(a, x, y, n, m) ==
    /\ isValid(x, y, n, m)
    /\ \A i \in 1 .. 9 :
          ~(/\ isValid(x + dx[i], y + dy[i], n, m)
            /\ a[<<x + dx[i], y + dy[i]>>] < 0)

\* MinesweeperAI.isSafe, its answer
isSafe(a, x, y, n, m) ==
    /\ isValid(x, y, n, m)
    /\ \A i \in 1 .. 9 :
          ~(/\ isValid(x + dx[i], y + dy[i], n, m)
            /\ a[<<x + dx[i], y + dy[i]>>] - 1 < 0)

\* MinesweeperAI.isSafe, what it leaves in arr when it answers True
Reduce(a, x, y) == [c \in DOMAIN a |-> a[c] - Hits(c, x, y)]

\* The undo with the loop of line 315 one turn short (`range(8)`): the last
\* offset is not given back.  The slip C8 is checked against.
RestoreShort(a, x, y) ==
    [c \in DOMAIN a |->
        a[c] + Cardinality({i \in 1 .. 8 : c = <<x + dx[i], y + dy[i]>>})]

\* Lines 315-317: the undo of a mine at (x, y)
Restore(a, x, y) == [c \in DOMAIN a |-> a[c] + Hits(c, x, y)]

\* MinesweeperAI.findUnvisited: the unvisited cells, of which the first in
\* row-major order is returned
Unvisited(v) == {c \in DOMAIN v : ~v[c]}

RowMajorBefore(c, d) == c[1] < d[1] \/ (c[1] = d[1] /\ c[2] <= d[2])

\* MinesweeperAI.findUnvisited without the test of line 275: the first cell.
findFirst(v) ==
    CHOOSE c \in DOMAIN v : \A d \in DOMAIN v : RowMajorBefore(c, d)

\* MinesweeperAI.findUnvisited
findUnvisited(v) ==
    CHOOSE c \in Unvisited(v) : \A d \in Unvisited(v) : RowMajorBefore(c, d)

\* MinesweeperAI.isDone without `and visited[i][j]` in line 283.
isDoneUnvisited(a, v) == \A c \in DOMAIN a : a[c] = 0

\* MinesweeperAI.isDone
isDone(a, v) == \A c \in DOMAIN a : a[c] = 0 /\ v[c]

Entry == [arr |-> arr, visited |-> visited, grid |-> grid]

NoLast == [valid |-> FALSE, ret |-> FALSE, mined |-> FALSE,
           entry |-> [arr |-> <<>>, visited |-> <<>>, grid |-> <<>>]]

Grids == {d \in (1 .. MaxGrid) \X (1 .. MaxGrid) : d[1] * d[2] <= MaxGrid}

InitSolver ==
    /\ \E d \in Grids : N = d[1] /\ M = d[2]
    /\ target \in [Cells(N, M) -> 0 .. MaxTarget]
    /\ arr = target
    /\ grid = [c \in Cells(N, M) |-> FALSE]
    /\ visited = [c \in Cells(N, M) |-> FALSE]
    /\ stack = <<>>
    /\ spc = "start"
    /\ ret = FALSE
    /\ last = NoLast
    /\ outcome = "pending"

\* minesweeperOperations, lines 332-338: the grids are allocated and the search
\* is called.
Operations ==
    /\ spc = "start"
    /\ grid' = [c \in Cells(N, M) |-> FALSE]
    /\ visited' = [c \in Cells(N, M) |-> FALSE]
    /\ spc' = "call"
    /\ UNCHANGED <<N, M, target, arr, stack, ret, last, outcome>>
    /\ UNCHANGED kbvars

\* SolveMinesweeper, lines 288-292: every cell is visited and every entry of
\* arr is 0.
SolveDone ==
    /\ spc = "call"
    /\ isDone(arr, visited)
    /\ ret' = TRUE
    /\ spc' = "ret"
    /\ last' = [valid |-> TRUE, ret |-> TRUE, mined |-> FALSE, entry |-> Entry]
    /\ UNCHANGED <<N, M, target, arr, grid, visited, stack, outcome>>
    /\ UNCHANGED kbvars

\* Lines 294-298: no cell is left to visit.
SolveExhausted ==
    /\ spc = "call"
    /\ ~isDone(arr, visited)
    /\ Unvisited(visited) = {}
    /\ ret' = FALSE
    /\ spc' = "ret"
    /\ last' = [valid |-> TRUE, ret |-> FALSE, mined |-> FALSE, entry |-> Entry]
    /\ UNCHANGED <<N, M, target, arr, grid, visited, stack, outcome>>
    /\ UNCHANGED kbvars

\* Lines 301-309: the first unvisited cell is marked, takes a mine, and the
\* search is called again.
SolveMine ==
    /\ spc = "call"
    /\ ~isDone(arr, visited)
    /\ Unvisited(visited) # {}
    /\ LET c == findUnvisited(visited)
       IN  /\ isSafe(arr, c[1], c[2], N, M)
           /\ visited' = [visited EXCEPT ![c] = TRUE]
           /\ arr' = Reduce(arr, c[1], c[2])
           /\ grid' = [grid EXCEPT ![c] = TRUE]
           /\ stack' = Append(stack, [cell |-> c, branch |-> "mine",
                                       mined |-> TRUE, entry |-> Entry])
    /\ last' = NoLast
    /\ UNCHANGED <<N, M, target, spc, ret, outcome>>
    /\ UNCHANGED kbvars

\* Lines 301-304 and 320: the cell cannot take a mine; the search is called
\* without one.
SolveNoMine ==
    /\ spc = "call"
    /\ ~isDone(arr, visited)
    /\ Unvisited(visited) # {}
    /\ LET c == findUnvisited(visited)
       IN  /\ ~isSafe(arr, c[1], c[2], N, M)
           /\ visited' = [visited EXCEPT ![c] = TRUE]
           /\ stack' = Append(stack, [cell |-> c, branch |-> "nomine",
                                       mined |-> FALSE, entry |-> Entry])
    /\ last' = NoLast
    /\ UNCHANGED <<N, M, target, arr, grid, spc, ret, outcome>>
    /\ UNCHANGED kbvars

Top == stack[Len(stack)]

Pop == SubSeq(stack, 1, Len(stack) - 1)

\* Lines 309-311 and 320-322: the recursive call returned True, and so does
\* this invocation.
ReturnTrue ==
    /\ spc = "ret"
    /\ stack # <<>>
    /\ ret
    /\ stack' = Pop
    /\ last' = [valid |-> TRUE, ret |-> TRUE, mined |-> Top.mined,
                entry |-> Top.entry]
    /\ UNCHANGED <<N, M, target, arr, grid, visited, spc, ret, outcome>>
    /\ UNCHANGED kbvars

\* Lines 313-320: the call with a mine returned False; the mine is taken back
\* and the search is called without it.
UndoMine ==
    /\ spc = "ret"
    /\ stack # <<>>
    /\ ~ret
    /\ Top.branch = "mine"
    /\ grid' = [grid EXCEPT ![Top.cell] = FALSE]
    /\ arr' = Restore(arr, Top.cell[1], Top.cell[2])
    /\ stack' = [stack EXCEPT ![Len(stack)].branch = "nomine"]
    /\ spc' = "call"
    /\ last' = NoLast
    /\ UNCHANGED <<N, M, target, visited, ret, outcome>>
    /\ UNCHANGED kbvars

\* Lines 324-328: the call without a mine returned False; the cell is
\* unmarked and this invocation returns False.
ReturnFalse ==
    /\ spc = "ret"
    /\ stack # <<>>
    /\ ~ret
    /\ Top.branch = "nomine"
    /\ visited' = [visited EXCEPT ![Top.cell] = FALSE]
    /\ stack' = Pop
    /\ last' = [valid |-> TRUE, ret |-> FALSE, mined |-> Top.mined,
                entry |-> Top.entry]
    /\ UNCHANGED <<N, M, target, arr, grid, spc, ret, outcome>>
    /\ UNCHANGED kbvars

\* minesweeperOperations, lines 338-345: the grid is returned, or nothing.
Finish ==
    /\ spc = "ret"
    /\ stack = <<>>
    /\ spc' = "done"
    /\ outcome' = IF ret THEN "grid" ELSE "none"
    /\ UNCHANGED <<N, M, target, arr, grid, visited, stack, ret, last>>
    /\ UNCHANGED kbvars

\* ------------------------------------------------------- specifications

\* The solver at rest, while the knowledge base runs.
SolverIdle ==
    /\ N = 1 /\ M = 1
    /\ target = [c \in Cells(1, 1) |-> 0]
    /\ arr = target
    /\ grid = [c \in Cells(1, 1) |-> FALSE]
    /\ visited = [c \in Cells(1, 1) |-> FALSE]
    /\ stack = <<>>
    /\ spc = "start"
    /\ ret = FALSE
    /\ last = NoLast
    /\ outcome = "pending"

\* The knowledge base at rest, while the solver runs.
KBIdle ==
    /\ height = 1 /\ width = 1
    /\ board = {}
    /\ moves_made = {}
    /\ safes = {}
    /\ mines = {}
    /\ knowledge = <<>>
    /\ nextId = 1
    /\ pc = "idle"
    /\ idx = 0
    /\ jdx = 0
    /\ sentence1 = NoSentence
    /\ call = NoCall
    /\ mpc = "idle"
    /\ move = NoMove

NextKB ==
    \/ Reveal
    \/ Step4 \/ Step4End \/ Step5Outer \/ Step5Inner \/ Step5InnerEnd \/ Return

\* The knowledge base under the driver of the game.
InitGame == InitKB /\ SolverIdle

SpecKB == InitGame /\ [][NextKB]_vars

NextMoves ==
    \/ Reveal
    \/ Step4 \/ Step4End \/ Step5Outer \/ Step5Inner \/ Step5InnerEnd \/ Return
    \/ SafeMoveSome \/ SafeMoveNone
    \/ RandomNone \/ RandomEnter \/ RandomRetry \/ RandomReturn

\* The knowledge base under the driver of the game, which asks for moves
\* between the calls of add_knowledge.
SpecMoves == InitGame /\ [][NextMoves]_vars

NextSolver ==
    \/ Operations \/ SolveDone \/ SolveExhausted \/ SolveMine \/ SolveNoMine
    \/ ReturnTrue \/ UndoMine \/ ReturnFalse \/ Finish

\* One call of minesweeperOperations on any target matrix within the bounds.
\* A driver that does not follow the board: it calls add_knowledge for a cell
\* not yet revealed with any count.
Lie ==
    \E cell \in Cells(height, width) \ moves_made :
        \E count \in 0 .. MaxCount :
            /\ Cardinality(moves_made) < MaxFaultyCalls
            /\ AddKnowledge(cell, count)

InitLie == InitKB /\ board = {} /\ SolverIdle

NextFaulty ==
    \/ Lie
    \/ Step4 \/ Step4End \/ Step5Outer \/ Step5Inner \/ Step5InnerEnd \/ Return

\* The knowledge base under a driver whose counts are arbitrary.
SpecFaulty == InitLie /\ [][NextFaulty]_vars

InitSearch == InitSolver /\ KBIdle

SpecSolver == InitSearch /\ [][NextSolver]_vars

\* The call runs on: the interpreter takes the next step of the search
\* whenever there is one.
SpecSolverFair == SpecSolver /\ WF_vars(NextSolver)

\* ------------------------------------------------------------------ claims

Sentences == {knowledge[n] : n \in 1 .. Len(knowledge)}

\* C1. Knowledge-base soundness: when add_knowledge has returned, under the
\* driver of the game, every cell of `mines` is a mine of the board and no
\* cell of `safes` is.
C1_Soundness ==
    pc = "idle" => (mines \subseteq board /\ safes \cap board = {})

\* A call has returned and has deduced a mine and a safe cell not yet revealed.
C1_Witness ==
    pc = "idle" /\ mines # {} /\ safes \ moves_made # {}

\* C2. Fixed-point closure: when add_knowledge has returned, step 4 and then
\* step 5 run once more add no cell to `safes`, no cell to `mines` and no
\* sentence to `knowledge`.
C2_FixedPoint ==
    pc = "idle" =>
        LET k4 == RunStep4(KB, 1)
            kn5 == RunStep5Outer(k4.knowledge, 1, nextId)
        IN  /\ k4.safes = safes
            /\ k4.mines = mines
            /\ \A n \in 1 .. Len(kn5) : \E s \in Sentences : SentenceEq(kn5[n], s)

\* The mines among the 8 neighbours of cell c in placement g.
NeighbourMines(g, c) == Cardinality({d \in Neighbours(c, N, M) : g[d]})

\* C3. Solver soundness: the 8-neighbour mine counts of a returned grid are
\* the target matrix that was passed in.
C3_RoundTrip ==
    (spc = "done" /\ outcome = "grid") =>
        \A c \in Cells(N, M) : NeighbourMines(grid, c) = target[c]

\* C4. Solver completeness: "no solution" is returned only for a target
\* matrix that is the 8-neighbour count matrix of no placement.
C4_Complete ==
    (spc = "done" /\ outcome = "none") =>
        ~\E P \in SUBSET Cells(N, M) :
            \A c \in Cells(N, M) :
                Cardinality(Neighbours(c, N, M) \cap P) = target[c]

\* C5. Disjointness: under the driver of the game, at every point of
\* add_knowledge and between calls, no cell is in both `safes` and `mines`.
C5_Disjoint == safes \cap mines = {}

\* Step 4 has marked cells, and both sets hold a deduced cell.
C5_Witness ==
    pc = "step4" /\ idx > 1 /\ mines # {} /\ safes \ moves_made # {}

\* C6. Consistency fault: the sentence step 3 has just stored has a count
\* that is neither negative nor above the number of its cells (a call whose
\* adjusted count is either is to be refused, not stored).
C6_NoBadSentenceStored ==
    (pc = "step4" /\ idx = 1) =>
        LET s == knowledge[Len(knowledge)]
        IN  0 <= s.count /\ s.count <= Cardinality(s.cells)

\* C7. Subset resolution: when add_knowledge has returned and the knowledge
\* holds S = k and S \cup {c} = k + 1 (S not empty, as in {A,B} = 1 and
\* {A,B,C} = 2), it holds {c} = 1 and c is in `mines`.
C7_SubsetResolution ==
    pc = "idle" =>
        \A a, b \in Sentences :
            (/\ a.cells # {}
             /\ a.cells \subseteq b.cells
             /\ Cardinality(b.cells \ a.cells) = 1
             /\ b.count = a.count + 1)
            => (/\ b.cells \ a.cells \subseteq mines
                /\ \E s \in Sentences :
                       s.cells = b.cells \ a.cells /\ s.count = 1)

\* C8. Rollback exactness: when an invocation of SolveMinesweeper has returned
\* False, arr, visited and grid are what they were when it was entered.
C8_RollbackExact ==
    (last.valid /\ ~last.ret) => Entry = last.entry

\* An invocation that had placed a mine, and taken from arr, has returned False.
C8_Witness ==
    last.valid /\ ~last.ret /\ last.mined

AllThree == N = 2 /\ M = 2 /\ \A c \in Cells(2, 2) : target[c] = 3

C10_NoDuplicates ==
    pc = "idle" =>
        \A n, m \in 1 .. Len(knowledge) :
            n # m => ~SentenceEq(knowledge[n], knowledge[m])

\* C11: when add_knowledge(cell, 0) has returned under the driver of the game,
\* every neighbour of cell on the board is in safes.
C11_ZeroCountReveal ==
    (pc = "idle" /\ call.count = 0) =>
        Neighbours(call.cell, height, width) \subseteq safes

\* The first call on a fresh knowledge base is add_knowledge((0, 0), 0) on a
\* board with a second row and a second column; it has returned.
C11_Witness ==
    /\ pc = "idle"
    /\ call = [cell |-> <<0, 0>>, count |-> 0]
    /\ moves_made = {<<0, 0>>}
    /\ height >= 2 /\ width >= 2
    /\ {<<0, 1>>, <<1, 0>>, <<1, 1>>} \subseteq safes

C13_SafeMoveReadOnly ==
    [][(pc = "idle" /\ mpc' = "safe_returned") =>
           /\ UNCHANGED <<moves_made, safes, mines, knowledge>>
           /\ IF safes \ moves_made = {}
              THEN move' = NoMove
              ELSE move' \in safes \ moves_made]_vars

\* make_safe_move has returned one of two or more safe cells not yet played,
\* with sentences in the knowledge base.
C13_Witness ==
    /\ mpc = "safe_returned"
    /\ move \in safes \ moves_made
    /\ Cardinality(safes \ moves_made) >= 2
    /\ knowledge # <<>>

\* C14: when minesweeperOperations has returned, with a grid or with no
\* solution, the caller's matrix arr holds the values it held at the call.
C14_ArrUntouched == spc = "done" => arr = target

\* C15 as claimed: after add_knowledge has returned, no sentence of knowledge
\* has a cell that is in mines or in safes.
C15_NoKnownCells ==
    pc = "idle" =>
        \A i \in 1 .. Len(knowledge) :
            knowledge[i].cells \cap (mines \cup safes) = {}

\* C15: after add_knowledge has returned, no sentence of knowledge has a cell
\* that is in mines or in moves_made.
C15_NoMineNoMove ==
    pc = "idle" =>
        \A i \in 1 .. Len(knowledge) :
            knowledge[i].cells \cap (mines \cup moves_made) = {}

\* add_knowledge has returned with a known mine and a stored sentence of two
\* or more cells, next to a revealed cell and clear of mines and moves made.
C15_Witness ==
    /\ pc = "idle"
    /\ mines # {}
    /\ \E i \in 1 .. Len(knowledge) :
           /\ Cardinality(knowledge[i].cells) >= 2
           /\ knowledge[i].cells \cap (mines \cup moves_made) = {}
           /\ \E c \in moves_made :
                  knowledge[i].cells \cap Neighbours(c, height, width) # {}

\* The mines of placement g in the block of 3x3 cells around c, c included,
\* as far as it lies on the grid.
BlockMines(g, c) ==
    Cardinality({d \in Cells(N, M) :
                    /\ g[d]
                    /\ d[1] - c[1] \in -1 .. 1
                    /\ d[2] - c[2] \in -1 .. 1})

\* C16: the search returns True only with every cell visited and every entry
\* of arr 0, and in a returned grid the mines in the block of 3x3 cells around
\* each cell, the cell included, are as many as the target matrix asks there.
C16_BlockCounts ==
    /\ (spc = "ret" /\ ret) =>
           \A c \in Cells(N, M) : visited[c] /\ arr[c] = 0
    /\ (spc = "done" /\ outcome = "grid") =>
           \A c \in Cells(N, M) :
               /\ visited[c] /\ arr[c] = 0
               /\ BlockMines(grid, c) = target[c]

\* A grid was returned that has a mine and a cell without one.
C16_Witness ==
    /\ spc = "done" /\ outcome = "grid"
    /\ \E c, d \in Cells(N, M) : grid[c] /\ ~grid[d]

\* C17: with a target matrix of entries 0 or more, every entry of arr is 0 or
\* more in every state of the search.
C17_NonNegative == \A c \in DOMAIN arr : arr[c] >= 0

\* In the search, a mine stands next to a cell whose entry of arr it brought
\* to 0, and a cell is left to visit.
C17_Witness ==
    /\ spc = "call"
    /\ \E c \in Cells(N, M) : grid[c] /\ arr[c] = 0 /\ target[c] > 0
    /\ Unvisited(visited) # {}

\* C18: the search returns, and the invocations that have not returned are
\* never more than N x M + 1: each of them but the running one has marked a
\* cell of its own as visited.
C18_Terminates ==
    /\ [](Len(stack) + 1 <= N * M + 1)
    /\ [](spc = "call" =>
              Len(stack) = Cardinality({c \in Cells(N, M) : visited[c]}))
    /\ <>(spc = "done")

\* The search is N x M + 1 invocations deep on a grid of two or more cells.
C18_Witness ==
    /\ spc = "call"
    /\ N * M >= 2
    /\ Len(stack) = N * M

\* C19: after add_knowledge has returned under the driver of the game, every
\* sentence of knowledge has a count from 0 to the number of its cells, and
\* the count is the number of mines of the board among its cells.
C19_WellFormed ==
    pc = "idle" =>
        \A i \in 1 .. Len(knowledge) :
            /\ 0 <= knowledge[i].count
            /\ knowledge[i].count <= Cardinality(knowledge[i].cells)
            /\ knowledge[i].count = Cardinality(knowledge[i].cells \cap board)

\* add_knowledge has returned with a known mine taken out of a stored
\* sentence that still has a mine and a mine-free cell.
C19_Witness ==
    /\ pc = "idle"
    /\ mines # {}
    /\ \E i \in 1 .. Len(knowledge) :
           /\ knowledge[i].count >= 1
           /\ knowledge[i].count < Cardinality(knowledge[i].cells)
           /\ \E c \in moves_made : \E m \in mines :
                  /\ m \in Neighbours(c, height, width)
                  /\ knowledge[i].cells \subseteq Neighbours(c, height, width)

====
